---- MODULE Spec2Model ----
(***************************************************************************)
(* Model of the compatibility resolution and dependency closure engine of  *)
(* MinecraftModChecker: the Modrinth metadata cache, the availability      *)
(* resolver (check_mod_version), the version/loader searches and the       *)
(* dependency walker (process_dependencies).                               *)
(***************************************************************************)
EXTENDS Integers, Sequences, FiniteSets, TLC

(***************************************************************************)
(* Universes.  A version string is the sequence of its characters, so that *)
(* parsing and the snapshot test work on the text as the code does.        *)
(***************************************************************************)
V118 == <<"1", ".", "1", "8">>
V119 == <<"1", ".", "1", "9">>
V120 == <<"1", ".", "2", "0">>
V1200 == <<"1", ".", "2", "0", ".", "0">>
Snap == <<"2", "3", "w", "1", "3", "a">>

\* Every modelled version string is either digits separated by dots or a
\* snapshot name that packaging.version rejects.
VersionStrings == {V118, V119, V120, V1200, Snap}

\* The loader enumeration (src/mod_checker.py:677, compatibility.py:63).
Loaders == {"fabric", "forge", "neoforge", "quilt"}

Slugs == {"a", "b", "c"}

(***************************************************************************)
(* Generic helpers.                                                        *)
(***************************************************************************)
Range(s) == {s[i] : i \in 1..Len(s)}

Reverse(s) == [i \in 1..Len(s) |-> s[Len(s) + 1 - i]]

Perms(S) == {p \in [1..Cardinality(S) -> S] : Range(p) = S}

\* Python's `sub in s` on strings.
Contains(s, sub) ==
  \E i \in 1..(Len(s) - Len(sub) + 1) : SubSeq(s, i, i + Len(sub) - 1) = sub

(***************************************************************************)
(* utils.py: parse_minecraft_version and sort_minecraft_versions.          *)
(***************************************************************************)
Digits == {"0", "1", "2", "3", "4", "5", "6", "7", "8", "9"}

DigitVal(c) ==
  CASE c = "0" -> 0 [] c = "1" -> 1 [] c = "2" -> 2 [] c = "3" -> 3
    [] c = "4" -> 4 [] c = "5" -> 5 [] c = "6" -> 6 [] c = "7" -> 7
    [] c = "8" -> 8 [] c = "9" -> 9

RECURSIVE SplitDots(_)
SplitDots(s) ==
  IF \A i \in 1..Len(s) : s[i] # "."
  THEN <<s>>
  ELSE LET k == CHOOSE i \in 1..Len(s) : s[i] = "." /\ \A j \in 1..(i - 1) : s[j] # "."
       IN <<SubSeq(s, 1, k - 1)>> \o SplitDots(SubSeq(s, k + 1, Len(s)))

RECURSIVE ToNat(_)
ToNat(seg) ==
  IF Len(seg) = 0 THEN 0
  ELSE 10 * ToNat(SubSeq(seg, 1, Len(seg) - 1)) + DigitVal(seg[Len(seg)])

IsNumber(seg) == Len(seg) > 0 /\ \A i \in 1..Len(seg) : seg[i] \in Digits

\* packaging.version.parse accepts N(.N)* (the only valid shape among the
\* modelled strings) and raises InvalidVersion otherwise.
InvalidVersion(s) == \E i \in 1..Len(SplitDots(s)) : ~IsNumber(SplitDots(s)[i])

RECURSIVE StripZeros(_)
StripZeros(r) ==
  IF Len(r) > 0 /\ r[Len(r)] = 0 THEN StripZeros(SubSeq(r, 1, Len(r) - 1)) ELSE r

\* The comparison key of packaging's Version: the release tuple without its
\* trailing zeros.
VersionParse(s) ==
  StripZeros([i \in 1..Len(SplitDots(s)) |-> ToNat(SplitDots(s)[i])])

parse_minecraft_version(s) ==
  IF InvalidVersion(s) THEN VersionParse(<<"0", ".", "0", ".", "0">>)
  ELSE VersionParse(s)

\* Tuple comparison of two keys: the first differing component decides, and a
\* proper prefix is the smaller.
KeyLess(a, b) ==
  \/ \E i \in 1..Len(a) :
       /\ i <= Len(b)
       /\ \A j \in 1..(i - 1) : a[j] = b[j]
       /\ a[i] < b[i]
  \/ /\ Len(a) < Len(b)
     /\ \A j \in 1..Len(a) : a[j] = b[j]

\* The key of every modelled version string, computed once.
ParsedVersion == [v \in VersionStrings |-> parse_minecraft_version(v)]

VerLess(x, y) == KeyLess(ParsedVersion[x], ParsedVersion[y])
VerGeq(x, y) == ~VerLess(x, y)

\* sorted(versions, key=parse_minecraft_version, reverse=True): a stable
\* descending sort, elements of equal key keep their input order.
RECURSIVE InsertDesc(_, _)
InsertDesc(x, s) ==
  IF Len(s) = 0 THEN <<x>>
  ELSE IF VerLess(Head(s), x) THEN <<x>> \o s
  ELSE <<Head(s)>> \o InsertDesc(x, Tail(s))

RECURSIVE sort_minecraft_versions(_)
sort_minecraft_versions(s) ==
  IF Len(s) = 0 THEN <<>>
  ELSE InsertDesc(s[Len(s)], sort_minecraft_versions(SubSeq(s, 1, Len(s) - 1)))

\* list(a_set): the elements in the set's iteration order.  String hashes
\* are randomised per process, so the order is an input `ho` (an enumeration
\* of the version universe).
SetToList(S, ho) == SelectSeq(ho, LAMBDA v : v \in S)

BaseOrder == <<V118, V119, V120, V1200, Snap>>

\* The only versions of equal key are 1.20 and 1.20.0, so these two orders
\* produce every outcome a sort of a set of modelled versions can have.
HashOrders == {BaseOrder, Reverse(BaseOrder)}

(***************************************************************************)
(* The Metadata Provider (Modrinth): per project a title and the release   *)
(* list in provider order.  A release names the loaders and game versions  *)
(* it supports, one file and its dependency list.                          *)
(***************************************************************************)
NoneV == <<>>
Some(v) == <<v>>

Release(slug, k, ls, gvs, ds) ==
  [id |-> <<slug, k>>, loaders |-> ls, game_versions |-> gvs,
   url |-> <<"cdn", slug, k>>, filename |-> <<slug, k, "jar">>,
   dependencies |-> ds]

Dep(p, t) == [project_id |-> p, dependency_type |-> t]

\* Release k of project `slug`; `ds` is its dependency list.
Shape(slug, k, ds) ==
  CASE k = 1 -> Release(slug, 1, {"fabric"}, {V120}, ds)
    [] k = 2 -> Release(slug, 2, {"fabric", "forge"}, {V119, V120, V1200}, ds)
    [] k = 3 -> Release(slug, 3, {"forge", "quilt"}, {V118, Snap}, ds)
    [] OTHER -> Release(slug, k, {"fabric", "forge", "quilt"}, {V118, V119}, ds)

MaxReleases == 2
ShapeIds == {1, 2, 3}

\* Release lists without repetition, of length 0..MaxReleases.
ShapeLists ==
  UNION {{q \in [1..n -> ShapeIds] : \A i, j \in 1..n : i # j => q[i] # q[j]}
         : n \in 0..MaxReleases}

Project(slug, q, ds) ==
  [title |-> <<"Title", slug>>,
   versions |-> [i \in 1..Len(q) |-> Shape(slug, q[i], ds)]]

(***************************************************************************)
(* cache.py: ModrinthCache.  One store per file name; a store holds the    *)
(* raw dump under "<slug>_all" and the entries under "<version>_<loader>". *)
(* No modelled version, loader or id contains "_" and "all" is no loader,  *)
(* so the two key formats are kept as the field `all` and the map `q`.     *)
(***************************************************************************)
CACHE_DURATION == 3600

EmptyStore == [all |-> NoneV, q |-> <<>>]

CacheFiles == Slugs \cup {"deps", "names"}

EmptyCache == [f \in CacheFiles |-> EmptyStore]

Key(version, loader) == <<version, loader>>

Put(m, k, e) == [x \in (DOMAIN m) \cup {k} |-> IF x = k THEN e ELSE m[x]]

\* An expiry test that still accepts an entry whose age equals the TTL.
Fresh_Inclusive(entry, now) == now - entry.cached_at <= CACHE_DURATION

Fresh(entry, now) == now - entry.cached_at < CACHE_DURATION

\* json.load succeeds on the file.  A file that does not parse is a record
\* without the fields `all` and `q`.
Parses(file) == "q" \in DOMAIN file

\* What the write functions start from: the parsed file, or {} when it does
\* not parse.
Loaded(file) == IF Parses(file) THEN file ELSE EmptyStore

\* Reading an entry raises KeyError when `cached_at` is missing, or when the
\* entry is unexpired and `data` is missing.
KeyFault(entry, now) ==
  \/ "cached_at" \notin DOMAIN entry
  \/ Fresh(entry, now) /\ "data" \notin DOMAIN entry

\* The exception raised inside the try block of get_all_data, or "none".
AllFault(c, now, mod_slug) ==
  IF ~Parses(c[mod_slug]) THEN "JSONDecodeError"
  ELSE IF c[mod_slug].all # NoneV /\ KeyFault(c[mod_slug].all[1], now)
  THEN "KeyError"
  ELSE "none"

\* The exception raised inside the try block of get_cached_data, or "none".
QueryFault(c, now, mod_slug, version, loader) ==
  IF ~Parses(c[mod_slug]) THEN "JSONDecodeError"
  ELSE IF /\ Key(version, loader) \in DOMAIN c[mod_slug].q
          /\ KeyFault(c[mod_slug].q[Key(version, loader)], now)
  THEN "KeyError"
  ELSE "none"

\* `except (json.JSONDecodeError, KeyError)`: the read ends in `return None`.
CaughtByRead(exc) == exc \in {"JSONDecodeError", "KeyError"}

\* The exception a read lets through to its caller, if any.
Uncaught(fault) ==
  IF fault # "none" /\ ~CaughtByRead(fault) THEN Some(fault) ELSE NoneV

\* A raw-dump read that always misses.
get_all_data_Never(c, now, mod_slug) == NoneV

get_all_data(c, now, mod_slug) ==
  IF /\ AllFault(c, now, mod_slug) = "none"
     /\ c[mod_slug].all # NoneV
     /\ Fresh(c[mod_slug].all[1], now)
  THEN Some(c[mod_slug].all[1].data)
  ELSE NoneV

cache_all_data(c, now, mod_slug, data) ==
  [c EXCEPT ![mod_slug] =
     [Loaded(@) EXCEPT !.all = Some([cached_at |-> now, data |-> data])]]

get_cached_data(c, now, mod_slug, version, loader) ==
  IF /\ QueryFault(c, now, mod_slug, version, loader) = "none"
     /\ Key(version, loader) \in DOMAIN c[mod_slug].q
     /\ Fresh(c[mod_slug].q[Key(version, loader)], now)
  THEN Some(c[mod_slug].q[Key(version, loader)].data)
  ELSE NoneV

\* A write that starts from an empty dict whatever the file holds.
cache_data_Alone(c, now, mod_slug, version, loader, data) ==
  [c EXCEPT ![mod_slug] =
     [EmptyStore EXCEPT !.q =
        Put(@, Key(version, loader), [cached_at |-> now, data |-> data])]]

\* A write that is lost.
cache_data_Lost(c, now, mod_slug, version, loader, data) == c

cache_data(c, now, mod_slug, version, loader, data) ==
  [c EXCEPT ![mod_slug] =
     [Loaded(@) EXCEPT !.q =
        Put(@, Key(version, loader), [cached_at |-> now, data |-> data])]]


(***************************************************************************)
(* modrinth_api.py: check_mod_version, the availability resolver.          *)
(*                                                                         *)
(* `e` is what the call meets: the clock e.now, the provider's projects    *)
(* e.catalog, the outcome e.net[slug] of each of the two requests ("ok" or *)
(* the exception class raised by requests.get / raise_for_status), and the *)
(* iteration orders e.ho, e.lo of version and loader sets.                 *)
(***************************************************************************)
RequestExceptions == {"ConnectionError", "HTTPError"}

FetchPlans ==
  {[versions |-> "ok", project |-> "ok"]}
  \cup {[versions |-> x, project |-> "ok"] : x \in RequestExceptions}
  \cup {[versions |-> "ok", project |-> x] : x \in RequestExceptions}

LoaderBase == <<"fabric", "forge", "neoforge", "quilt">>

\* list(loader_types): no modelled operation reads a position of this list;
\* two iteration orders stand for the orders a set of loaders can have.
LoaderListOrders == {LoaderBase, Reverse(LoaderBase)}

\* ModInfo(name, slug, url, versions=[], available=False): models.py defaults.
NewModInfo(name, slug) ==
  [name |-> name, slug |-> slug, url |-> <<"https://modrinth.com/mod/", slug>>,
   versions |-> <<>>, available |-> FALSE, version_id |-> NoneV,
   loader_types |-> NoneV, download_url |-> NoneV, filename |-> NoneV,
   error |-> NoneV]

\* A handler that catches connection failures only.
IsRequestException_ConnectionOnly(exc) == exc = "ConnectionError"

\* `except requests.exceptions.RequestException`.
IsRequestException(exc) == exc \in RequestExceptions

\* The two requests of a raw-dump miss: the first failure, or "ok".
FetchOutcome(plan) ==
  IF plan.versions # "ok" THEN plan.versions ELSE plan.project

FetchRequests(plan) == IF plan.versions # "ok" THEN 1 ELSE 2

\* `loader_type in ver["loaders"] and target_version in ver["game_versions"]`.
ReleaseMatches(ver, target_version, loader_type) ==
  loader_type \in ver.loaders /\ target_version \in ver.game_versions

\* A scan that keeps the last matching release of the list.
ScanReleases_LastMatch(versions, target_version, loader_type, acc) ==
  [acc EXCEPT !.compatible_version =
     IF \E i \in 1..Len(versions) :
          ReleaseMatches(versions[i], target_version, loader_type)
     THEN Some(versions[CHOOSE i \in 1..Len(versions) :
            /\ ReleaseMatches(versions[i], target_version, loader_type)
            /\ \A j \in (i + 1)..Len(versions) :
                 ~ReleaseMatches(versions[j], target_version, loader_type)])
     ELSE NoneV]

\* The scan loop: stop at the first matching release; every release passed
\* over adds its game versions and loaders to the fallback sets.  The version
\* list is deduplicated afterwards, so it is accumulated as a set.
RECURSIVE ScanReleases(_, _, _, _)
ScanReleases(versions, target_version, loader_type, acc) ==
  IF Len(versions) = 0 THEN acc
  ELSE IF ReleaseMatches(Head(versions), target_version, loader_type)
  THEN [acc EXCEPT !.compatible_version = Some(Head(versions))]
  ELSE ScanReleases(Tail(versions), target_version, loader_type,
         [acc EXCEPT !.versions = @ \cup Head(versions).game_versions,
                     !.loader_types =
                        Some((IF @ = NoneV THEN {} ELSE @[1]) \cup Head(versions).loaders)])

\* A match that forgets the file name.
ApplyMatch_NoFilename(mod_info, compatible_version) ==
  IF compatible_version = NoneV THEN mod_info
  ELSE [mod_info EXCEPT !.available = TRUE,
                        !.version_id = Some(compatible_version[1].id),
                        !.download_url = Some(compatible_version[1].url)]

\* `if compatible_version:` fills the four fields of a match.
ApplyMatch(mod_info, compatible_version) ==
  IF compatible_version = NoneV THEN mod_info
  ELSE [mod_info EXCEPT !.available = TRUE,
                        !.version_id = Some(compatible_version[1].id),
                        !.download_url = Some(compatible_version[1].url),
                        !.filename = Some(compatible_version[1].filename)]

\* Deduplication without the sort.
DedupSort_Unsorted(versionSet, ho) == SetToList(versionSet, ho)

\* `list(set(versions))` then sort descending by parse_minecraft_version.
DedupSort(versionSet, ho) == sort_minecraft_versions(SetToList(versionSet, ho))

\* The dict written to the cache: loader_types becomes a list, or None.
CachedForm(mod_info, lo) ==
  [mod_info EXCEPT !.loader_types =
     IF @ # NoneV /\ @[1] # {}
     THEN Some(SelectSeq(lo, LAMBDA l : l \in mod_info.loader_types[1]))
     ELSE NoneV]

\* The ModInfo returned when a request fails.
ErrorModInfo(slug, exc) ==
  [NewModInfo(<<slug>>, slug) EXCEPT !.error = Some(exc)]

\* The resolution from the release list (lines 32-56).
ComputeModInfo(data, slug, target_version, loader_type, ho) ==
  LET Build(scan) ==
        [ApplyMatch([NewModInfo(data.project.title, slug) EXCEPT
                       !.loader_types = scan.loader_types],
                    scan.compatible_version)
           EXCEPT !.versions = DedupSort(scan.versions, ho)]
  IN Build(ScanReleases(data.versions, target_version, loader_type,
             [versions |-> {}, loader_types |-> NoneV, compatible_version |-> NoneV]))

\* A resolver that never takes the cached entry.
CachedHit_Never(cached_data) == FALSE

\* `if cached_data:` a stored ModInfo dict is never empty.
CachedHit(cached_data) == cached_data # NoneV

\* A handler that stores the error ModInfo under the query's key.
AfterFailure_Stored(c, t, slug, target_version, loader_type, mod_info) ==
  cache_data(c, t, slug, target_version, loader_type, mod_info)

\* Lines 78-86: the handler builds the ModInfo and writes nothing.
AfterFailure(c, t, slug, target_version, loader_type, mod_info) == c

\* Lines 14-27: the raw dump, from the cache or from the two requests.
LoadAllData(c, e, slug) ==
  LET Fetched == [project |-> [title |-> e.catalog[slug].title],
                  versions |-> e.catalog[slug].versions]
      Take(all_data) ==
        IF all_data # NoneV
        THEN [cache |-> c, exc |-> "ok", requests |-> 0, data |-> all_data]
        ELSE IF FetchOutcome(e.net[slug]) # "ok"
        THEN [cache |-> c, exc |-> FetchOutcome(e.net[slug]),
              requests |-> FetchRequests(e.net[slug]), data |-> NoneV]
        ELSE [cache |-> cache_all_data(c, e.now, slug, Fetched), exc |-> "ok",
              requests |-> FetchRequests(e.net[slug]), data |-> Some(Fetched)]
  IN Take(get_all_data(c, e.now, slug))

check_mod_version(c, e, slug, target_version, loader_type) ==
  LET Store(l, mod_info) ==
        [cache |-> cache_data(l.cache, e.now, slug, target_version, loader_type,
                              CachedForm(mod_info, e.lo)),
         path |-> "fresh", exc |-> "ok", raised |-> NoneV,
         result |-> Some(mod_info), requests |-> l.requests]
      Miss(l) ==
        IF l.exc # "ok"
        THEN IF IsRequestException(l.exc)
             THEN [cache |-> AfterFailure(l.cache, e.now, slug, target_version,
                                          loader_type, ErrorModInfo(slug, l.exc)),
                   path |-> "error", exc |-> l.exc, raised |-> NoneV,
                   result |-> Some(ErrorModInfo(slug, l.exc)), requests |-> l.requests]
             ELSE [cache |-> c, path |-> "error", exc |-> l.exc,
                   raised |-> Some(l.exc), result |-> NoneV, requests |-> l.requests]
        ELSE Store(l, ComputeModInfo(l.data[1], slug, target_version, loader_type, e.ho))
      Raise(exc) ==
        [cache |-> c, path |-> "error", exc |-> exc, raised |-> Some(exc),
         result |-> NoneV, requests |-> 0]
      Look(cached_data) ==
        IF CachedHit(cached_data)
        THEN [cache |-> c, path |-> "hit", exc |-> "ok", raised |-> NoneV,
              result |-> Some(cached_data[1]), requests |-> 0]
        ELSE IF Uncaught(AllFault(c, e.now, slug)) # NoneV
        THEN Raise(AllFault(c, e.now, slug))
        ELSE Miss(LoadAllData(c, e, slug))
  IN IF Uncaught(QueryFault(c, e.now, slug, target_version, loader_type)) # NoneV
     THEN Raise(QueryFault(c, e.now, slug, target_version, loader_type))
     ELSE Look(get_cached_data(c, e.now, slug, target_version, loader_type))

(***************************************************************************)
(* compatibility.py: the version and loader searches.  Each threads the    *)
(* cache through the resolver calls it makes.                              *)
(***************************************************************************)
\* check_version_compatibility: resolve every mod at test_version.
RECURSIVE CheckVersionLoop(_, _, _, _, _, _)
CheckVersionLoop(c, e, mods_info, test_version, loader_type, incompatible_mods) ==
  IF Len(mods_info) = 0
  THEN [cache |-> c, incompatible_mods |-> incompatible_mods]
  ELSE LET Step(r) ==
             CheckVersionLoop(r.cache, e, Tail(mods_info), test_version, loader_type,
               IF r.result[1].available THEN incompatible_mods
               ELSE Append(incompatible_mods,
                           <<Head(mods_info).name, r.result[1].versions>>))
       IN Step(check_mod_version(c, e, Head(mods_info).slug, test_version, loader_type))

\* A check that calls every version compatible without resolving anything.
check_version_compatibility_Always(c, e, mods_info, test_version, loader_type) ==
  [cache |-> c,
   check |-> [version |-> test_version, compatible |-> TRUE,
              incompatible_mods |-> <<>>]]

check_version_compatibility(c, e, mods_info, test_version, loader_type) ==
  LET Result(r) ==
        [cache |-> r.cache,
         check |-> [version |-> test_version,
                    compatible |-> Len(r.incompatible_mods) = 0,
                    incompatible_mods |-> r.incompatible_mods]]
  IN Result(CheckVersionLoop(c, e, mods_info, test_version, loader_type, <<>>))

\* `all_versions.update(mod.versions)` over the mods.
AllVersions(mods_info) == UNION {Range(mods_info[i].versions) : i \in 1..Len(mods_info)}

\* Candidates with no lower bound.
NotOlder_All(sorted_versions, current_version) == sorted_versions

\* The candidates kept when downgrades are not allowed.
NotOlder(sorted_versions, current_version) ==
  SelectSeq(sorted_versions, LAMBDA v : VerGeq(v, current_version))

\* The probe loop: skip the current version, stop at the first compatible one.
RECURSIVE ProbeLoop(_, _, _, _, _, _, _)
ProbeLoop(c, e, mods_info, sorted_versions, current_version, loader_type, version_checks) ==
  IF Len(sorted_versions) = 0
  THEN [cache |-> c, version |-> NoneV, version_checks |-> version_checks]
  ELSE LET Step(skip, r) ==
             IF ~skip /\ r.check.compatible
             THEN [cache |-> r.cache, version |-> Some(Head(sorted_versions)),
                   version_checks |-> Append(version_checks, r.check)]
             ELSE ProbeLoop(r.cache, e, mods_info, Tail(sorted_versions),
                            current_version, loader_type,
                            IF skip THEN version_checks
                            ELSE Append(version_checks, r.check))
       IN IF Head(sorted_versions) = current_version
          THEN Step(TRUE, [cache |-> c])
          ELSE Step(FALSE, check_version_compatibility(c, e, mods_info,
                             Head(sorted_versions), loader_type))

find_next_compatible_version(c, e, mods_info, current_version, loader_type, allow_downgrade) ==
  LET Probe(sorted_versions) ==
        ProbeLoop(c, e, mods_info,
                  IF ~allow_downgrade THEN NotOlder(sorted_versions, current_version)
                  ELSE sorted_versions,
                  current_version, loader_type, <<>>)
  IN Probe(sort_minecraft_versions(SetToList(AllVersions(mods_info), e.ho)))

\* check_loader_compatibility: resolve every mod under one loader and count
\* the available ones.
RECURSIVE check_loader_compatibility(_, _, _, _, _)
check_loader_compatibility(c, e, mods, version, loader) ==
  IF Len(mods) = 0
  THEN [cache |-> c, results |-> <<>>, compatible_count |-> 0]
  ELSE LET Join(r, rest) ==
             [cache |-> rest.cache,
              results |-> <<r.result[1]>> \o rest.results,
              compatible_count |->
                (IF r.result[1].available THEN 1 ELSE 0) + rest.compatible_count]
           Step(r) ==
             Join(r, check_loader_compatibility(r.cache, e, Tail(mods), version, loader))
       IN Step(check_mod_version(c, e, Head(mods).slug, version, loader))

\* A tie-break under which the current loader wins whatever the counts are.
IsBetter_CurrentAlways(compatible_count, best_count, loader, current_loader, preferred_loader) ==
  loader = current_loader

\* The tie-break of find_best_loader: `is_better`.
IsBetter(compatible_count, best_count, loader, current_loader, preferred_loader) ==
  IF compatible_count > best_count THEN TRUE
  ELSE IF compatible_count = best_count
  THEN IF loader = current_loader THEN TRUE
       ELSE preferred_loader # NoneV /\ loader = preferred_loader[1]
  ELSE FALSE

\* The loop of find_best_loader over the loaders in iteration order `order`.
RECURSIVE BestLoaderLoop(_, _, _, _, _, _, _, _)
BestLoaderLoop(c, e, mods, version, current_loader, preferred_loader, order, st) ==
  IF Len(order) = 0 THEN [st EXCEPT !.cache = c]
  ELSE LET Step(r) ==
             BestLoaderLoop(r.cache, e, mods, version, current_loader,
               preferred_loader, Tail(order),
               IF IsBetter(r.compatible_count, st.best_count, Head(order),
                           current_loader, preferred_loader)
               THEN [st EXCEPT
                       !.loader_stats = Put(@, Head(order), r.compatible_count),
                       !.best_count = r.compatible_count,
                       !.best_loader = Head(order),
                       !.best_results = r.results]
               ELSE [st EXCEPT
                       !.loader_stats = Put(@, Head(order), r.compatible_count)])
       IN Step(check_loader_compatibility(c, e, mods, version, Head(order)))

\* `order` is the iteration order of the set all_loaders.
find_best_loader(c, e, mods, version, current_loader, preferred_loader, order) ==
  BestLoaderLoop(c, e, mods, version, current_loader, preferred_loader, order,
    [cache |-> c, loader_stats |-> <<>>, best_loader |-> current_loader,
     best_count |-> 0, best_results |-> <<>>])

\* The inner loop of check_alternative_loaders: resolve every mod under one
\* loader, in list order.
RECURSIVE ResolveEach(_, _, _, _, _)
ResolveEach(c, e, mods, version, loader) ==
  IF Len(mods) = 0
  THEN [cache |-> c, results |-> <<>>]
  ELSE LET Join(r, rest) ==
             [cache |-> rest.cache, results |-> <<r.result[1]>> \o rest.results]
           Step(r) == Join(r, ResolveEach(r.cache, e, Tail(mods), version, loader))
       IN Step(check_mod_version(c, e, Head(mods).slug, version, loader))

\* A filter that keeps a loader as soon as one mod is available.
KeepLoader_Any(results) == \E i \in 1..Len(results) : results[i].available

\* `all(mod.available for mod in results)`
KeepLoader(results) == \A i \in 1..Len(results) : results[i].available

RECURSIVE AlternativeLoop(_, _, _, _, _, _)
AlternativeLoop(c, e, mods, version, order, loader_results) ==
  IF Len(order) = 0
  THEN [cache |-> c, loader_results |-> loader_results]
  ELSE LET Step(r) ==
             AlternativeLoop(r.cache, e, mods, version, Tail(order),
               IF KeepLoader(r.results)
               THEN Put(loader_results, Head(order), r.results)
               ELSE loader_results)
       IN Step(ResolveEach(c, e, mods, version, Head(order)))

\* `order` is the iteration order of the loader set; current_loader is
\* removed from it before the loop.
check_alternative_loaders(c, e, mods, version, current_loader, order) ==
  LET Other(l) == l # current_loader
  IN AlternativeLoop(c, e, mods, version, SelectSeq(order, Other), <<>>)

\* `"w" not in v and "snapshot" not in v`.
NotSnapshot(v) ==
  ~Contains(v, <<"w">>) /\ ~Contains(v, <<"s", "n", "a", "p", "s", "h", "o", "t">>)

\* The sorted non-snapshot versions common to the mods that list any.
CommonSorted(mods, ho) ==
  LET mod_versions == {Range(mods[i].versions) : i \in {j \in 1..Len(mods) : Len(mods[j].versions) > 0}}
      common_versions == {v \in UNION mod_versions : \A S \in mod_versions : v \in S}
  IN IF Len(mods) = 0 \/ mod_versions = {} \/ common_versions = {} THEN <<>>
     ELSE sort_minecraft_versions(
            SelectSeq(SetToList(common_versions, ho), NotSnapshot))

\* compatibility.py: `sorted_versions[-1]`.
find_common_version(mods, ho) ==
  LET sorted_versions == CommonSorted(mods, ho)
  IN IF Len(sorted_versions) > 0 THEN Some(sorted_versions[Len(sorted_versions)])
     ELSE NoneV

\* mod_checker.py, the definition the test imports: `sorted_versions[0]`.
find_common_version_main(mods, ho) ==
  LET sorted_versions == CommonSorted(mods, ho)
  IN IF Len(sorted_versions) > 0 THEN Some(sorted_versions[1]) ELSE NoneV

(***************************************************************************)
(* modrinth_api.py and downloader.py: the dependency walk.  `e.deps` and   *)
(* `e.dl` are the outcomes of the version request and of the file request. *)
(***************************************************************************)
\* The release the provider returns for GET /version/{version_id}.
ReleaseById(projects, version_id) ==
  projects[version_id[1]].versions[
    CHOOSE i \in 1..Len(projects[version_id[1]].versions) :
      projects[version_id[1]].versions[i].id = version_id]

\* `if cached_data:` an empty dependency list counts as a miss.
get_mod_dependencies(c, e, version_id) ==
  LET Keep(dependencies) ==
        [cache |-> cache_data(c, e.now, "deps", version_id, "all", dependencies),
         dependencies |-> dependencies, requests |-> 1]
      Take(cached_data) ==
        IF cached_data # NoneV /\ cached_data[1] # <<>>
        THEN [cache |-> c, dependencies |-> cached_data[1], requests |-> 0]
        ELSE IF e.deps # "ok"
        THEN [cache |-> c, dependencies |-> <<>>, requests |-> 1]
        ELSE Keep(SelectSeq(ReleaseById(e.catalog, version_id).dependencies,
                            LAMBDA dep : dep.dependency_type = "required"))
  IN Take(get_cached_data(c, e.now, "deps", version_id, "all"))

get_mod_name(c, e, mod_id) ==
  LET Take(cached_data) ==
        IF cached_data # NoneV
        THEN [cache |-> c, name |-> Some(cached_data[1].title)]
        ELSE IF e.net[mod_id].project # "ok"
        THEN [cache |-> c, name |-> NoneV]
        ELSE [cache |-> cache_data(c, e.now, "names", mod_id, "all",
                                   [title |-> e.catalog[mod_id].title]),
              name |-> Some(e.catalog[mod_id].title)]
  IN Take(get_cached_data(c, e.now, "names", mod_id, "all"))

\* download_mod: nothing to do for an unavailable mod or a file already there.
download_mod(files, e, mod_info) ==
  IF ~mod_info.available \/ mod_info.download_url = NoneV \/ mod_info.filename = NoneV
  THEN [output_dir |-> files, ok |-> FALSE]
  ELSE IF mod_info.filename[1] \in files
  THEN [output_dir |-> files, ok |-> TRUE]
  ELSE IF e.dl # "ok"
  THEN [output_dir |-> files, ok |-> FALSE]
  ELSE [output_dir |-> files \cup {mod_info.filename[1]}, ok |-> TRUE]

\* A walk that starts every call with an empty visited set.
VisitedPassed_Fresh(visited) == {}

\* main passes the one set `processed_mods` to every call.
VisitedPassed(visited) == visited

\* `st` is what the walk changes: the cache, the visited set, the download
\* directory, and `resolved`, the dependency ids handed to check_mod_version.
Visit(st, c, files, dep_id) ==
  [cache |-> c, processed_mods |-> st.processed_mods \cup {dep_id},
   output_dir |-> files, resolved |-> Append(st.resolved, dep_id)]

\* A walk that lists a dependency after what was found below it.
Collect_PostOrder(dependency_results, dep_result, nested_deps) ==
  (dependency_results \o nested_deps) \o <<dep_result>>

\* `dependency_results.append(dep_result)` before the nested call, then
\* `dependency_results.extend(nested_deps)`.
Collect(dependency_results, dep_result, nested_deps) ==
  (dependency_results \o <<dep_result>>) \o nested_deps

\* A nested call that works on a copy of the visited set: what it visits is
\* forgotten when it returns.
AfterNested_Copy(before, after) ==
  [after EXCEPT !.processed_mods = before.processed_mods]

\* The nested call is handed the caller's own set `processed_mods`, so the
\* loop goes on with everything the nested call visited.
AfterNested(before, after) == after

RECURSIVE process_dependencies(_, _, _, _, _)
RECURSIVE DepLoop(_, _, _, _, _, _)

\* The loop over the required dependencies of one release.
DepLoop(st, e, dependencies, version, loader, dependency_results) ==
  IF Len(dependencies) = 0
  THEN [st |-> st, dependency_results |-> dependency_results]
  ELSE IF \/ Head(dependencies).project_id = NoneV
          \/ Head(dependencies).project_id[1] \in st.processed_mods
  THEN DepLoop(st, e, Tail(dependencies), version, loader, dependency_results)
  ELSE LET dep_id == Head(dependencies).project_id[1]
           Join(visit, nested) == [nested EXCEPT !.st = AfterNested(visit, @)]
           Extend(dep_result, nested) ==
             DepLoop(nested.st, e, Tail(dependencies), version, loader,
                     Collect(dependency_results, dep_result, nested.dependency_results))
           Recurse(visit, dep_result) ==
             Join(visit, process_dependencies(visit, e, dep_result, version, loader))
           Nested(dep_result, c, dl) ==
             Extend(dep_result, Recurse(Visit(st, c, dl.output_dir, dep_id), dep_result))
           Resolved(r) ==
             IF r.result[1].available
             THEN Nested(r.result[1], r.cache, download_mod(st.output_dir, e, r.result[1]))
             ELSE DepLoop(Visit(st, r.cache, st.output_dir, dep_id), e,
                          Tail(dependencies), version, loader, dependency_results)
           Named(n) == Resolved(check_mod_version(n.cache, e, dep_id, version, loader))
       IN Named(get_mod_name(st.cache, e, dep_id))

process_dependencies(st, e, mod_info, version, loader) ==
  IF mod_info.version_id = NoneV \/ ~mod_info.available
  THEN [st |-> st, dependency_results |-> <<>>]
  ELSE LET Loop(d) ==
             DepLoop([st EXCEPT !.cache = d.cache], e, d.dependencies, version,
                     loader, <<>>)
       IN Loop(get_mod_dependencies(st.cache, e, mod_info.version_id[1]))

(***************************************************************************)
(* The rate limiter of ModrinthCache.  Times are in milliseconds; the      *)
(* X-Ratelimit-Reset header and rate_reset are in seconds.                 *)
(***************************************************************************)
MIN_REQUEST_INTERVAL == 100

\* The limiter fields of a ModrinthCache just constructed.
NewLimiter ==
  [rate_limit |-> 300, rate_remaining |-> 300, rate_reset |-> 0,
   last_request_time |-> 0]

\* int(headers.get(name, default))
HeaderInt(h, default) == IF h = NoneV THEN default ELSE h[1]

update_rate_limits(l, headers) ==
  [l EXCEPT !.rate_limit = HeaderInt(headers.limit, 300),
            !.rate_remaining = HeaderInt(headers.remaining, 300),
            !.rate_reset = HeaderInt(headers.reset, 0)]

\* A limiter that only honours the reset wait.
should_wait_NoSpacing(l, t) ==
  IF l.rate_remaining < 10
  THEN (IF l.rate_reset > 0 THEN 1000 * l.rate_reset ELSE 0)
  ELSE 0

\* The time to wait at time t, in milliseconds.
should_wait(l, t) ==
  IF l.rate_remaining < 10
  THEN (IF l.rate_reset > 0 THEN 1000 * l.rate_reset ELSE 0)
  ELSE IF t - l.last_request_time < MIN_REQUEST_INTERVAL
  THEN MIN_REQUEST_INTERVAL - (t - l.last_request_time)
  ELSE 0

\* make_request called at time t: time.sleep returns oversleep late,
\* requests.get takes latency and either returns a response with the given
\* headers or raises.
make_request(l, t, oversleep, latency, response) ==
  LET Issue(wait_time, issued_at) ==
        [before |-> l, called_at |-> t, wait_time |-> wait_time,
         issued_at |-> issued_at,
         raised |-> response = NoneV,
         limiter |->
           IF response = NoneV THEN l
           ELSE update_rate_limits(
                  [l EXCEPT !.last_request_time = issued_at + latency],
                  response[1]),
         clock |-> issued_at + latency]
      Sleep(wait_time) ==
        Issue(wait_time, IF wait_time > 0 THEN t + wait_time + oversleep ELSE t)
  IN Sleep(should_wait(l, t))

(***************************************************************************)
(* State.                                                                  *)
(***************************************************************************)
VARIABLES
  catalog,         \* the provider's projects: slug -> [title, versions]
  cache,           \* modrinth_cache/: file name -> store
  now,             \* time.time(), in seconds
  ticks,           \* how often the clock has advanced
  calls,           \* how many top-level calls have been made
  op,              \* the last top-level call: its arguments and what it returned
  processed_mods,  \* main's visited set of dependency ids
  output_dir,      \* the file names present in the download directory
  limiter,         \* the rate limiter fields of the ModrinthCache in use
  clock,           \* time.time(), in milliseconds, as the limiter reads it
  writers          \* the cache writes under way: writer -> its position and what it read

vars ==
  <<catalog, cache, now, ticks, calls, op, processed_mods, output_dir,
    limiter, clock, writers>>

MaxCalls == 3
MaxTicks == 2

\* The processes that write the cache at the same time.
WriterIds == {1, 2}

NoWriters == [w \in WriterIds |-> [pc |-> "idle"]]

\* time.time() when the program starts, far from 0.
StartClock == 1000

\* The clock advances by half the TTL.
TickStep == CACHE_DURATION \div 2

\* Project "a" has any of the release lists, project "b" one release.
Catalogs ==
  {[s \in Slugs |-> IF s = "a" THEN Project(s, q, <<>>) ELSE Project(s, <<2>>, <<>>)]
   : q \in ShapeLists}

\* The (slug, version, loader) triples resolved directly.
Queries ==
  {<<"a", V120, "fabric">>, <<"a", V119, "fabric">>, <<"a", V118, "neoforge">>,
   <<"b", V120, "fabric">>}

Env(plan, ho, lo) ==
  [now |-> now, catalog |-> catalog, net |-> [s \in Slugs |-> plan],
   ho |-> ho, lo |-> lo]

\* Whether the per-query entry is stored and younger than the TTL.
EntryLive(c, t, slug, version, loader) ==
  get_cached_data(c, t, slug, version, loader) # NoneV

Init ==
  /\ catalog \in Catalogs
  /\ cache = EmptyCache
  /\ now = 0
  /\ ticks = 0
  /\ calls = 0
  /\ op = [name |-> "init"]
  /\ processed_mods = {}
  /\ output_dir = {}
  /\ limiter = NewLimiter
  /\ clock = StartClock
  /\ writers = NoWriters

Tick ==
  /\ ticks < MaxTicks
  /\ now' = now + TickStep
  /\ ticks' = ticks + 1
  /\ UNCHANGED <<catalog, cache, calls, op, processed_mods, output_dir, limiter, clock, writers>>

\* One call of check_mod_version(slug, target_version, loader_type).
CheckModVersion ==
  /\ calls < MaxCalls
  /\ \E qy \in Queries, plan \in FetchPlans,
        ho \in HashOrders, lo \in LoaderListOrders :
       LET r == check_mod_version(cache, Env(plan, ho, lo), qy[1], qy[2], qy[3])
       IN /\ cache' = r.cache
          /\ op' = [name |-> "check_mod_version", slug |-> qy[1],
                    version |-> qy[2], loader |-> qy[3],
                    warm |-> EntryLive(cache, now, qy[1], qy[2], qy[3]),
                    again |-> /\ op.name = "check_mod_version"
                              /\ op.warm
                              /\ <<op.slug, op.version, op.loader>> = qy,
                    retry |-> /\ op.name = "check_mod_version"
                              /\ op.path = "error"
                              /\ <<op.slug, op.version, op.loader>> = qy,
                    path |-> r.path, exc |-> r.exc, raised |-> r.raised,
                    result |-> r.result, requests |-> r.requests]
  /\ calls' = calls + 1
  /\ UNCHANGED <<catalog, now, ticks, processed_mods, output_dir, limiter, clock, writers>>

Next == Tick \/ CheckModVersion

Spec == Init /\ [][Next]_vars

(***************************************************************************)
(* The cache file of a package altered on disk between two calls.          *)
(***************************************************************************)
EntryFields == {"cached_at", "data"}

\* The file holds something other than what cache_all_data and cache_data
\* write.
Malformed(file) ==
  \/ ~Parses(file)
  \/ file.all # NoneV /\ DOMAIN file.all[1] # EntryFields
  \/ \E k \in DOMAIN file.q : DOMAIN file.q[k] # EntryFields

Without(entry, field) ==
  IF field = "cached_at" THEN [data |-> entry.data]
  ELSE [cached_at |-> entry.cached_at]

\* The files a well-formed file can be turned into: text that does not
\* parse, or one entry without one of its two fields.
Damages(file) ==
  {[garbage |-> TRUE]}
  \cup {[file EXCEPT !.all = Some(Without(@[1], f))] : f \in EntryFields}
  \cup {[file EXCEPT !.q[k] = Without(@, f)] : k \in DOMAIN file.q, f \in EntryFields}

DamageCacheFile ==
  /\ calls < MaxCalls
  /\ op.name = "check_mod_version"
  /\ op.path = "fresh"
  /\ ~Malformed(cache[op.slug])
  /\ \E d \in Damages(cache[op.slug]) :
       cache' = [cache EXCEPT ![op.slug] = d]
  /\ op' = [name |-> "damage", slug |-> op.slug]
  /\ calls' = calls + 1
  /\ UNCHANGED <<catalog, now, ticks, processed_mods, output_dir, limiter, clock, writers>>

NextDamage == Tick \/ CheckModVersion \/ DamageCacheFile

SpecDamage == Init /\ [][NextDamage]_vars

(***************************************************************************)
(* The outbound requests of a run, through the limiter.                    *)
(***************************************************************************)
\* How far the clock moves between two calls.
ElapseSteps == {40, 2000}

\* How late time.sleep returns, and how long requests.get takes.
Oversleeps == {0, 5}
Latencies == {0, 30}

\* The rate-limit headers of a response; a header may be absent.
ResponseHeaders ==
  [limit : {Some(300)}, remaining : {NoneV, Some(9), Some(10)},
   reset : {NoneV, Some(0), Some(1)}]

\* The limiter state the last request of the run left, if there was one.
Left(o) == IF "left" \in DOMAIN o THEN o.left ELSE NoneV

Elapse ==
  /\ ticks < MaxTicks
  /\ \E d \in ElapseSteps : clock' = clock + d
  /\ ticks' = ticks + 1
  /\ UNCHANGED <<catalog, cache, now, calls, op, processed_mods, output_dir, limiter, writers>>

\* cache.make_request(url) on the ModrinthCache in use.
MakeRequest ==
  /\ calls < MaxCalls
  /\ \E oversleep \in Oversleeps, latency \in Latencies,
        response \in {NoneV} \cup {Some(h) : h \in ResponseHeaders} :
       \E r \in {make_request(limiter, clock, oversleep, latency, response)} :
         /\ limiter' = r.limiter
         /\ clock' = r.clock
         /\ op' = [name |-> "make_request", before |-> r.before,
                   called_at |-> r.called_at, wait_time |-> r.wait_time,
                   issued_at |-> r.issued_at, raised |-> r.raised,
                   prev |-> Left(op), left |-> Some(r.limiter)]
  /\ calls' = calls + 1
  /\ UNCHANGED <<catalog, cache, now, ticks, processed_mods, output_dir, writers>>

\* `cache = ModrinthCache()` at the head of check_mod_version,
\* get_mod_dependencies and get_mod_name of mod_checker.py; each of them
\* goes on to make_request, so two constructions never follow each other.
NewModrinthCache ==
  /\ calls < MaxCalls
  /\ op.name # "ModrinthCache"
  /\ limiter' = NewLimiter
  /\ op' = [name |-> "ModrinthCache", left |-> Left(op)]
  /\ UNCHANGED <<catalog, cache, now, ticks, calls, processed_mods, output_dir, clock, writers>>

NextRequests == Elapse \/ MakeRequest \/ NewModrinthCache

\* A run starts with the module's ModrinthCache and nothing requested yet.
InitRequests ==
  /\ catalog = [s \in Slugs |-> Project(s, <<2>>, <<>>)]
  /\ cache = EmptyCache
  /\ now = 0
  /\ ticks = 0
  /\ calls = 0
  /\ op = [name |-> "init"]
  /\ processed_mods = {}
  /\ output_dir = {}
  /\ limiter = NewLimiter
  /\ clock = StartClock
  /\ writers = NoWriters

SpecRequests == InitRequests /\ [][NextRequests]_vars

(***************************************************************************)
(* Resolves of one catalog under a clock that advances by a third of the   *)
(* TTL, so that calls fall between one and two TTLs after the first one.   *)
(***************************************************************************)
MaxFineTicks == 4

FineStep == CACHE_DURATION \div 3

TickFine ==
  /\ ticks < MaxFineTicks
  /\ now' = now + FineStep
  /\ ticks' = ticks + 1
  /\ UNCHANGED <<catalog, cache, calls, op, processed_mods, output_dir, limiter, clock, writers>>

NextFine == TickFine \/ CheckModVersion

SpecFine == InitRequests /\ [][NextFine]_vars

(***************************************************************************)
(* Two processes that write the cache file of one package at the same      *)
(* time.  cache_data and cache_all_data read the file, change the parsed    *)
(* dict and write the file back; nothing locks the file in between, so a   *)
(* write is two steps.                                                     *)
(***************************************************************************)
WriterSlug == "a"

\* What a writer stores: the raw dump, or the entry of one query.
WriteJobs ==
  {[kind |-> "cache_all_data", data |-> <<"dump">>]}
  \cup {[kind |-> "cache_data", version |-> v, loader |-> "fabric",
         data |-> <<"entry", v>>] : v \in {V119, V120}}

\* The file a writer writes back, from the file it read.
Written(job, seen, t) ==
  IF job.kind = "cache_all_data"
  THEN cache_all_data([cache EXCEPT ![WriterSlug] = seen], t, WriterSlug,
                      job.data)[WriterSlug]
  ELSE cache_data([cache EXCEPT ![WriterSlug] = seen], t, WriterSlug,
                  job.version, job.loader, job.data)[WriterSlug]

\* `cache_data = json.loads(cache_file.read_text())`
StartWrite ==
  \E w \in WriterIds, job \in WriteJobs :
    /\ writers[w].pc = "idle"
    /\ writers' = [writers EXCEPT ![w] =
                     [pc |-> "read", job |-> job, seen |-> cache[WriterSlug]]]
    /\ UNCHANGED <<catalog, cache, now, ticks, calls, op, processed_mods,
                   output_dir, limiter, clock>>

\* `cache_data[key] = {...}; cache_file.write_text(json.dumps(cache_data))`
FinishWrite ==
  \E w \in WriterIds :
    /\ writers[w].pc = "read"
    /\ cache' = [cache EXCEPT ![WriterSlug] =
                   Written(writers[w].job, writers[w].seen, now)]
    /\ writers' = [writers EXCEPT ![w].pc = "done"]
    /\ UNCHANGED <<catalog, now, ticks, calls, op, processed_mods, output_dir,
                   limiter, clock>>

NextWriters == Tick \/ StartWrite \/ FinishWrite

SpecWriters == InitRequests /\ [][NextWriters]_vars

(***************************************************************************)
(* The searches, each applied once to the initial state, as main calls     *)
(* each of them at most once in a run.                                     *)
(***************************************************************************)
MaxListed == 2

\* The versions lists of the ModInfo values passed to the searches.
VersionLists ==
  {SetToList(S, BaseOrder) : S \in {T \in SUBSET VersionStrings : Cardinality(T) <= MaxListed}}

ModRef(slug) == [name |-> <<slug>>, slug |-> slug]

ModLists == {<<ModRef("a")>>, <<ModRef("a"), ModRef("b")>>}

\* The ModInfo lists passed to find_common_version and
\* find_next_compatible_version.
ModInfoLists ==
  {<<[NewModInfo(<<"a">>, "a") EXCEPT !.versions = x]>> : x \in VersionLists}
  \cup {<<[NewModInfo(<<"a">>, "a") EXCEPT !.versions = x],
          [NewModInfo(<<"b">>, "b") EXCEPT !.versions = y]>>
         : x \in VersionLists, y \in VersionLists}

\* Within one search the provider either answers or refuses a project.
SearchNets ==
  {[s \in Slugs |-> IF s \in F THEN [versions |-> "HTTPError", project |-> "ok"]
                    ELSE [versions |-> "ok", project |-> "ok"]]
   : F \in {{}, {"a"}}}

\* The versions lists probed: those above and one list of three releases.
ProbeVersionLists == VersionLists \cup {<<V118, V119, V120>>}

\* The ModInfo lists passed to find_next_compatible_version: one mod, or two
\* mods listing the same versions.
ProbeInfoLists ==
  {<<[NewModInfo(<<"a">>, "a") EXCEPT !.versions = x]>> : x \in ProbeVersionLists}
  \cup {<<[NewModInfo(<<"a">>, "a") EXCEPT !.versions = x],
          [NewModInfo(<<"b">>, "b") EXCEPT !.versions = x]>>
         : x \in ProbeVersionLists}

SearchEnv(net, ho, lo) ==
  [now |-> now, catalog |-> catalog, net |-> net, ho |-> ho, lo |-> lo]

FindCommonVersion ==
  /\ calls = 0
  /\ \E mods \in ModInfoLists, ho \in HashOrders :
       op' = [name |-> "find_common_version", mods |-> mods,
              result |-> find_common_version(mods, ho)]
  /\ calls' = calls + 1
  /\ UNCHANGED <<catalog, cache, now, ticks, processed_mods, output_dir, limiter, clock, writers>>

FindCommonVersionMain ==
  /\ calls = 0
  /\ \E mods \in ModInfoLists, ho \in HashOrders :
       op' = [name |-> "find_common_version_main", mods |-> mods,
              result |-> find_common_version_main(mods, ho)]
  /\ calls' = calls + 1
  /\ UNCHANGED <<catalog, cache, now, ticks, processed_mods, output_dir, limiter, clock, writers>>

FindNextCompatibleVersion ==
  /\ calls = 0
  /\ \E mods_info \in ProbeInfoLists, current_version \in VersionStrings,
        loader_type \in {"fabric", "forge"}, allow_downgrade \in BOOLEAN,
        net \in SearchNets, ho \in HashOrders :
       LET r == find_next_compatible_version(cache, SearchEnv(net, ho, LoaderBase),
                  mods_info, current_version, loader_type, allow_downgrade)
       IN /\ cache' = r.cache
          /\ op' = [name |-> "find_next_compatible_version", mods |-> mods_info,
                    current_version |-> current_version, loader |-> loader_type,
                    allow_downgrade |-> allow_downgrade, net |-> net,
                    version |-> r.version, version_checks |-> r.version_checks]
  /\ calls' = calls + 1
  /\ UNCHANGED <<catalog, now, ticks, processed_mods, output_dir, limiter, clock, writers>>

\* One hash seed fixes the iteration order of the loader set and of version
\* sets; the loader chosen does not read the order of a version list.
SeedVersionOrder(order) ==
  IF order[1] \in {"fabric", "forge"} THEN BaseOrder ELSE Reverse(BaseOrder)

AllOk == [s \in Slugs |-> [versions |-> "ok", project |-> "ok"]]

FindBestLoader ==
  /\ calls = 0
  /\ \E mods \in ModLists, version \in {V118, V120},
        current_loader \in Loaders,
        preferred_loader \in {NoneV} \cup {Some(l) : l \in Loaders},
        order \in Perms(Loaders) :
       LET r == find_best_loader(cache, SearchEnv(AllOk, SeedVersionOrder(order), order),
                                 mods, version, current_loader, preferred_loader, order)
       IN /\ cache' = r.cache
          /\ op' = [name |-> "find_best_loader", mods |-> mods, version |-> version,
                    current_loader |-> current_loader,
                    preferred_loader |-> preferred_loader, order |-> order,
                    best_loader |-> r.best_loader,
                    best_available |->
                      [i \in 1..Len(r.best_results) |-> r.best_results[i].available],
                    loader_stats |-> r.loader_stats]
  /\ calls' = calls + 1
  /\ UNCHANGED <<catalog, now, ticks, processed_mods, output_dir, limiter, clock, writers>>

\* The iteration orders of the loader set tried by check_alternative_loaders.
AlternativeOrders == {LoaderBase, Reverse(LoaderBase)}

CheckAlternativeLoaders ==
  /\ calls = 0
  /\ \E mods \in ModLists, version \in {V118, V120}, current_loader \in Loaders,
        net \in SearchNets, order \in AlternativeOrders :
       \E r \in {check_alternative_loaders(cache, SearchEnv(net, BaseOrder, order),
                                           mods, version, current_loader, order)} :
         /\ cache' = r.cache
         /\ op' = [name |-> "check_alternative_loaders", mods |-> mods,
                   version |-> version, current_loader |-> current_loader,
                   net |-> net, order |-> order,
                   loader_results |-> r.loader_results]
  /\ calls' = calls + 1
  /\ UNCHANGED <<catalog, now, ticks, processed_mods, output_dir, limiter, clock, writers>>

NextSearch ==
  FindCommonVersion \/ FindCommonVersionMain \/ FindNextCompatibleVersion
    \/ FindBestLoader \/ CheckAlternativeLoaders

SpecSearch == Init /\ [][NextSearch]_vars

(***************************************************************************)
(* The dependency walk of main: process_dependencies on one root after     *)
(* another, all calls sharing processed_mods.                              *)
(***************************************************************************)
MaxWalks == 2

\* args.version and args.loader of the run.
WalkVersion == V120
WalkLoader == "fabric"

Required(slug) == Dep(Some(slug), "required")

\* The dependency lists of the three projects' releases.  Shape 1 is
\* available at (WalkVersion, WalkLoader), shape 3 is not.
DepCatalogs ==
  {[s \in Slugs |->
      CASE s = "a" -> Project("a", <<1>>, da)
        [] s = "b" -> Project("b", <<kb>>, db)
        [] OTHER -> Project("c", <<1>>, dc)]
   : da \in {<<>>, <<Required("b")>>, <<Required("c")>>,
             <<Required("b"), Required("c")>>,
             <<Dep(Some("b"), "optional")>>,
             <<Dep(NoneV, "required"), Required("b")>>},
     kb \in {1, 3},
     db \in {<<>>, <<Required("a")>>, <<Required("c")>>,
             <<Required("a"), Required("c")>>},
     dc \in {<<>>, <<Required("a")>>, <<Required("b")>>}}

InitDeps ==
  /\ catalog \in DepCatalogs
  /\ cache = EmptyCache
  /\ now = 0
  /\ ticks = 0
  /\ calls = 0
  /\ op = [name |-> "init", walked |-> {}, resolved |-> <<>>, dependencies |-> <<>>]
  /\ processed_mods = {}
  /\ output_dir = {}
  /\ limiter = NewLimiter
  /\ clock = StartClock
  /\ writers = NoWriters

WalkEnv(deps, dl) ==
  [now |-> now, catalog |-> catalog, net |-> AllOk, ho |-> BaseOrder,
   lo |-> LoaderBase, deps |-> deps, dl |-> dl]

SlugsOf(results) == [i \in 1..Len(results) |-> results[i].slug]

\* One iteration of main's loop over the results: the root is resolved, and
\* an available root has its dependencies walked.
ProcessDependencies ==
  /\ calls < MaxWalks
  /\ \E root \in Slugs \ op.walked, deps \in {"ok", "HTTPError"},
        dl \in {"ok", "HTTPError"} :
       LET Walk(mod) ==
             IF mod.result[1].available
             THEN process_dependencies(
                    [cache |-> mod.cache,
                     processed_mods |-> VisitedPassed(processed_mods),
                     output_dir |-> output_dir, resolved |-> op.resolved],
                    WalkEnv(deps, dl), mod.result[1], WalkVersion, WalkLoader)
             ELSE [st |-> [cache |-> mod.cache, processed_mods |-> processed_mods,
                           output_dir |-> output_dir, resolved |-> op.resolved],
                   dependency_results |-> <<>>]
       IN \E w \in {Walk(check_mod_version(cache, WalkEnv(deps, dl), root,
                                           WalkVersion, WalkLoader))} :
            /\ cache' = w.st.cache
            /\ processed_mods' = w.st.processed_mods
            /\ output_dir' = w.st.output_dir
            /\ op' = [name |-> "process_dependencies", root |-> root,
                      first |-> calls = 0, deps_request |-> deps,
                      walked |-> op.walked \cup {root},
                      resolved |-> w.st.resolved,
                      deps |-> SlugsOf(w.dependency_results),
                      dependencies |->
                        op.dependencies \o SlugsOf(w.dependency_results)]
  /\ calls' = calls + 1
  /\ UNCHANGED <<catalog, now, ticks, limiter, clock, writers>>

NextDeps == ProcessDependencies

SpecDeps == InitDeps /\ [][NextDeps]_vars

(***************************************************************************)
(* get_mod_dependencies called on its own, for the release of any project, *)
(* while the clock advances.                                               *)
(***************************************************************************)
\* The release ids the provider knows.
VersionIds == {catalog[s].versions[i].id : s \in Slugs, i \in {1}}

\* The "deps" file holds an entry for the release id, younger than the TTL.
DepsStored(c, t, version_id) ==
  /\ Key(version_id, "all") \in DOMAIN c["deps"].q
  /\ t - c["deps"].q[Key(version_id, "all")].cached_at < CACHE_DURATION

GetModDependencies ==
  /\ calls < MaxCalls
  /\ \E version_id \in VersionIds, deps \in {"ok", "HTTPError"} :
       \E r \in {get_mod_dependencies(cache, WalkEnv(deps, "ok"), version_id)} :
         /\ cache' = r.cache
         /\ op' = [name |-> "get_mod_dependencies", version_id |-> version_id,
                   stored |-> DepsStored(cache, now, version_id),
                   deps_request |-> deps,
                   dependencies |-> r.dependencies, requests |-> r.requests]
  /\ calls' = calls + 1
  /\ UNCHANGED <<catalog, now, ticks, processed_mods, output_dir, limiter, clock, writers>>

NextVersionDeps == Tick \/ GetModDependencies

SpecVersionDeps == InitDeps /\ [][NextVersionDeps]_vars

(***************************************************************************)
(* One walk from root a over graphs of four projects, with cycles, self-   *)
(* dependencies, shared dependencies and an unavailable project.           *)
(***************************************************************************)
GraphSlugs == Slugs \cup {"d"}

\* Shape 1 is available at (WalkVersion, WalkLoader), shape 3 is not.
GraphCatalogs ==
  {[s \in GraphSlugs |->
      CASE s = "a" -> Project("a", <<1>>, da)
        [] s = "b" -> Project("b", <<1>>, db)
        [] s = "c" -> Project("c", <<1>>, dc)
        [] OTHER -> Project("d", <<kd>>, dd)]
   : da \in {<<Required("b")>>, <<Required("b"), Required("c")>>,
             <<Required("c"), Required("b")>>, <<Required("a"), Required("b")>>},
     db \in {<<>>, <<Required("d")>>, <<Required("d"), Required("c")>>,
             <<Required("a")>>, <<Required("b"), Required("d")>>},
     dc \in {<<>>, <<Required("d")>>, <<Required("b")>>},
     dd \in {<<>>, <<Required("a")>>, <<Required("b")>>},
     kd \in {1, 3}}

InitGraph ==
  /\ catalog \in GraphCatalogs
  /\ cache = [f \in GraphSlugs \cup {"deps", "names"} |-> EmptyStore]
  /\ now = 0
  /\ ticks = 0
  /\ calls = 0
  /\ op = [name |-> "init", walked |-> {}, resolved |-> <<>>, dependencies |-> <<>>]
  /\ processed_mods = {}
  /\ output_dir = {}
  /\ limiter = NewLimiter
  /\ clock = StartClock
  /\ writers = NoWriters

GraphEnv(deps, dl) ==
  [now |-> now, catalog |-> catalog,
   net |-> [s \in GraphSlugs |-> [versions |-> "ok", project |-> "ok"]],
   ho |-> BaseOrder, lo |-> LoaderBase, deps |-> deps, dl |-> dl]

\* What the walk from root a returns in the current state: main resolves
\* the root and hands it to process_dependencies.
GraphWalk(deps, dl) ==
  LET Walk(mod) ==
        process_dependencies(
          [cache |-> mod.cache, processed_mods |-> VisitedPassed(processed_mods),
           output_dir |-> output_dir, resolved |-> op.resolved],
          GraphEnv(deps, dl), mod.result[1], WalkVersion, WalkLoader)
  IN Walk(check_mod_version(cache, GraphEnv(deps, dl), "a", WalkVersion, WalkLoader))

WalkGraph ==
  /\ calls = 0
  /\ \E deps \in {"ok", "HTTPError"}, dl \in {"ok", "HTTPError"} :
       \E w \in {GraphWalk(deps, dl)} :
            /\ cache' = w.st.cache
            /\ processed_mods' = w.st.processed_mods
            /\ output_dir' = w.st.output_dir
            /\ op' = [name |-> "process_dependencies", root |-> "a",
                      first |-> TRUE, deps_request |-> deps,
                      walked |-> {"a"},
                      resolved |-> w.st.resolved,
                      deps |-> SlugsOf(w.dependency_results),
                      dependencies |-> SlugsOf(w.dependency_results)]
  /\ calls' = calls + 1
  /\ UNCHANGED <<catalog, now, ticks, limiter, clock, writers>>

NextGraph == WalkGraph

SpecGraph == InitGraph /\ [][NextGraph]_vars

(***************************************************************************)
(* Claims about the resolver (checked under Spec).                         *)
(***************************************************************************)
Resolved == op.name = "check_mod_version" /\ op.result # NoneV

AllGameVersions(slug) ==
  UNION {catalog[slug].versions[i].game_versions : i \in 1..Len(catalog[slug].versions)}

NoReleaseMatches(slug, version, loader) ==
  \A i \in 1..Len(catalog[slug].versions) :
     ~(loader \in catalog[slug].versions[i].loaders
       /\ version \in catalog[slug].versions[i].game_versions)

Descending(s) == \A i, j \in 1..Len(s) : i < j => ~VerLess(s[i], s[j])

\* C1: every Availability returned by check_mod_version, on the cache-hit,
\* the fresh and the failure path, has version_id, download_url and filename
\* all present when available is true and all absent when it is false.
C1_AvailabilityFields ==
  Resolved =>
    LET m == op.result[1]
    IN /\ m.available =>
            m.version_id # NoneV /\ m.download_url # NoneV /\ m.filename # NoneV
       /\ ~m.available =>
            m.version_id = NoneV /\ m.download_url = NoneV /\ m.filename = NoneV

\* An available result served from the per-query cache entry.
C1_Witness ==
  Resolved /\ op.path = "hit" /\ op.result[1].available

\* C7: when the release list is obtained and no release supports both the
\* target version and the loader, the result is unavailable and its versions
\* are every game version of every release, without duplicates, in
\* descending order of the version comparator.
C7_FallbackVersions ==
  (Resolved /\ op.path = "fresh" /\ NoReleaseMatches(op.slug, op.version, op.loader)) =>
    LET m == op.result[1]
    IN /\ ~m.available
       /\ Range(m.versions) = AllGameVersions(op.slug)
       /\ Len(m.versions) = Cardinality(AllGameVersions(op.slug))
       /\ Descending(m.versions)

\* The scenario of the specification: a package whose only release supports
\* 1.20 under fabric, queried at (1.19, fabric), yields versions = [1.20].
C7_Witness ==
  /\ Resolved /\ op.path = "fresh"
  /\ Len(catalog[op.slug].versions) = 1
  /\ catalog[op.slug].versions[1].game_versions = {V120}
  /\ op.version = V119 /\ op.loader = "fabric"
  /\ ~op.result[1].available
  /\ op.result[1].versions = <<V120>>

\* C8: a call of check_mod_version made while its cache entry is stored and
\* unexpired leaves the cache unchanged, and when the call before it was such
\* a call for the same (slug, version, loader) both return the same value.
C8_WarmIdempotent ==
  [][(calls' = calls + 1 /\ op'.name = "check_mod_version" /\ op'.warm) =>
       /\ cache' = cache
       /\ op'.again => op'.result = op.result]_vars

\* Two consecutive warm calls for one key have been made.
C8_Witness ==
  op.name = "check_mod_version" /\ op.warm /\ op.again /\ op.path = "hit"

\* C9: when a provider request made by check_mod_version fails, on the
\* release-list fetch or on the project fetch, the call does not raise: it
\* returns available = false, no versions, no loader set and the cause as
\* error.
C9_TransportFailure ==
  (op.name = "check_mod_version" /\ op.exc # "ok") =>
    /\ op.raised = NoneV
    /\ op.result # NoneV
    /\ ~op.result[1].available
    /\ op.result[1].versions = <<>>
    /\ op.result[1].loader_types = NoneV
    /\ op.result[1].error = Some(op.exc)

\* The project fetch fails with a non-success status after the release list
\* was fetched.
C9_Witness ==
  /\ op.name = "check_mod_version"
  /\ op.exc = "HTTPError" /\ op.requests = 2
  /\ op.result # NoneV /\ op.result[1].error = Some("HTTPError")

\* The releases of a project that support (version, loader), by position.
MatchingReleases(slug, version, loader) ==
  {i \in 1..Len(catalog[slug].versions) :
     /\ loader \in catalog[slug].versions[i].loaders
     /\ version \in catalog[slug].versions[i].game_versions}

\* C11: on a per-query cache miss the match is the first release in provider
\* order that supports the loader and the target version; version_id,
\* download_url and filename are those of that release.
C11_FirstMatch ==
  (/\ Resolved /\ op.path = "fresh"
   /\ MatchingReleases(op.slug, op.version, op.loader) # {})
  => \E i \in MatchingReleases(op.slug, op.version, op.loader) :
       /\ \A j \in MatchingReleases(op.slug, op.version, op.loader) : i <= j
       /\ op.result[1].available
       /\ op.result[1].version_id = Some(catalog[op.slug].versions[i].id)
       /\ op.result[1].download_url = Some(catalog[op.slug].versions[i].url)
       /\ op.result[1].filename = Some(catalog[op.slug].versions[i].filename)

\* A fresh resolution of a project two of whose releases match.
C11_Witness ==
  /\ Resolved /\ op.path = "fresh"
  /\ Cardinality(MatchingReleases(op.slug, op.version, op.loader)) = 2
  /\ op.result[1].version_id = Some(catalog[op.slug].versions[1].id)

\* The loaders of a stored Availability (a list or None) and of a returned
\* one (a set or None).
StoredLoaders(x) == IF x = NoneV THEN {} ELSE Range(x[1])
ReturnedLoaders(x) == IF x = NoneV THEN {} ELSE x[1]

\* The stored dict d holds the returned Availability m: every field is equal,
\* the loaders as a collection.
HoldsAvailability(d, m) ==
  /\ [d EXCEPT !.loader_types = NoneV] = [m EXCEPT !.loader_types = NoneV]
  /\ StoredLoaders(d.loader_types) = ReturnedLoaders(m.loader_types)

\* C12: when check_mod_version returns an Availability computed from the
\* release list, the cache entry of (slug, target_version, loader) holds it at
\* the moment of return: a get for that key is a hit with the same content.
C12_WriteThrough ==
  [][(/\ calls' = calls + 1
      /\ op'.name = "check_mod_version"
      /\ op'.path = "fresh")
     => /\ CachedHit(get_cached_data(cache', now', op'.slug, op'.version, op'.loader))
        /\ HoldsAvailability(
             get_cached_data(cache', now', op'.slug, op'.version, op'.loader)[1],
             op'.result[1])]_vars

\* A computed Availability with fallback loaders is in the cache.
C12_Witness ==
  /\ Resolved /\ op.path = "fresh"
  /\ op.result[1].loader_types # NoneV
  /\ EntryLive(cache, now, op.slug, op.version, op.loader)
  /\ HoldsAvailability(cache[op.slug].q[Key(op.version, op.loader)].data, op.result[1])

\* C13: a cache read returns a stored payload exactly when the entry's age,
\* the time since its cached_at, is strictly below the TTL of 3600 seconds;
\* an entry at or past the TTL stays stored and every read of it is a miss.
C13_StrictTTL ==
  \A s \in Slugs :
    /\ \A k \in DOMAIN cache[s].q :
         (get_cached_data(cache, now, s, k[1], k[2]) # NoneV)
           <=> (now - cache[s].q[k].cached_at < 3600)
    /\ cache[s].all # NoneV =>
         ((get_all_data(cache, now, s) # NoneV)
            <=> (now - cache[s].all[1].cached_at < 3600))

\* A call found the raw dump expired and fetched again, while a per-query
\* entry whose age is exactly the TTL is still stored and reads as a miss.
C13_Witness ==
  /\ op.name = "check_mod_version" /\ op.path = "fresh" /\ op.requests = 2
  /\ \E k \in DOMAIN cache[op.slug].q :
       /\ now - cache[op.slug].q[k].cached_at = 3600
       /\ get_cached_data(cache, now, op.slug, k[1], k[2]) = NoneV

\* The raw dump of slug is stored and younger than the TTL.
DumpLive(c, t, slug) ==
  /\ c[slug].all # NoneV
  /\ t - c[slug].all[1].cached_at < CACHE_DURATION

\* C22: once the raw dump of a package has been fetched, every resolve of
\* that package made before the dump expires, for any version and loader,
\* issues no request to the provider.
C22_DumpServesAll ==
  [][(/\ calls' = calls + 1
      /\ op'.name = "check_mod_version"
      /\ DumpLive(cache, now, op'.slug))
     => op'.requests = 0]_vars

\* A query never resolved before is answered from the dump another query
\* fetched.
C22_Witness ==
  /\ op.name = "check_mod_version"
  /\ op.path = "fresh"
  /\ op.requests = 0
  /\ ~op.warm
  /\ op.result[1].available
  /\ Cardinality(DOMAIN cache[op.slug].q) = 2

\* The per-query entry of the call was computed from the raw dump now stored:
\* raw dumps are stamped in increasing order, so a dump not younger than the
\* entry is the one the entry was computed from.
ServedFromStoredDump(c, slug, version, loader) ==
  /\ c[slug].all # NoneV
  /\ Key(version, loader) \in DOMAIN c[slug].q
  /\ c[slug].all[1].cached_at <= c[slug].q[Key(version, loader)].cached_at

\* C27: no result returned by resolve is derived from provider data fetched
\* more than the TTL before the call: a per-query entry computed from a raw
\* dump is not served once that dump has expired.
C27_NoStaleSource ==
  [][(/\ calls' = calls + 1
      /\ op'.name = "check_mod_version"
      /\ op'.path = "hit"
      /\ ServedFromStoredDump(cache, op'.slug, op'.version, op'.loader))
     => now - cache[op'.slug].all[1].cached_at <= CACHE_DURATION]_vars

\* C28: a resolve that ends in a transport failure leaves every cache file
\* as it was, and the next resolve of the same (slug, version, loader) is
\* not a cache hit: it issues at least one request.
C28_FailureNotStored ==
  [][(calls' = calls + 1 /\ op'.name = "check_mod_version")
     => /\ op'.path = "error" => cache' = cache
        /\ op'.retry => op'.path # "hit" /\ op'.requests > 0]_vars

\* A failed resolve followed by a resolve of the same query that fetched the
\* raw dump and stored its result.
C28_Witness ==
  /\ op.name = "check_mod_version"
  /\ op.retry
  /\ op.path = "fresh"
  /\ op.requests = 2
  /\ EntryLive(cache, now, op.slug, op.version, op.loader)

\* C30: the cache writes of a resolve of (slug, version, loader) leave every
\* other package's file as it was, every other (version, loader) entry of
\* the package reads back as before, and when only cache_data wrote (no
\* request was made) the raw dump reads back as before.
C30_WriteFrame ==
  [][(calls' = calls + 1 /\ op'.name = "check_mod_version")
     => /\ \A f \in (DOMAIN cache) \ {op'.slug} : cache'[f] = cache[f]
        /\ \A qy \in Queries :
             (qy[1] = op'.slug /\ <<qy[2], qy[3]>> # <<op'.version, op'.loader>>)
             => get_cached_data(cache', now, qy[1], qy[2], qy[3])
                  = get_cached_data(cache, now, qy[1], qy[2], qy[3])
        /\ op'.requests = 0
           => get_all_data(cache', now, op'.slug) = get_all_data(cache, now, op'.slug)]_vars

\* A resolve refetched the raw dump and stored its entry in a file that
\* holds two other entries, one of them still live.
C30_Witness ==
  /\ op.name = "check_mod_version"
  /\ op.path = "fresh"
  /\ op.requests = 2
  /\ ~op.warm
  /\ Cardinality({qy \in Queries : qy[1] = op.slug
                                   /\ EntryLive(cache, now, qy[1], qy[2], qy[3])}) = 2
  /\ Cardinality(DOMAIN cache[op.slug].q) = 3

(***************************************************************************)
(* Claims about a damaged cache file (checked under SpecDamage).           *)
(***************************************************************************)
\* The file of the package is malformed and resolve is called on it.
ResolvesMalformed ==
  /\ calls' = calls + 1
  /\ op'.name = "check_mod_version"
  /\ Malformed(cache[op'.slug])

\* Every read of the package's file returns a miss.
AllReadsMiss(c, t, slug) ==
  /\ get_all_data(c, t, slug) = NoneV
  /\ \A v \in VersionStrings, l \in Loaders :
       get_cached_data(c, t, slug, v, l) = NoneV

\* C14: when the stored cache payload of a package is malformed (it does not
\* parse, or an entry lacks its timestamp or its data), every cache read for
\* that package is a miss, nothing is raised, and resolve goes on to a live
\* fetch and returns a result.
C14_MalformedFallsThrough ==
  [][ResolvesMalformed =>
       /\ AllReadsMiss(cache, now, op'.slug)
       /\ op'.raised = NoneV
       /\ op'.result # NoneV
       /\ op'.path # "hit"
       /\ op'.requests > 0]_vars

\* What the code does hold: a malformed file never makes resolve raise, the
\* read of a malformed entry is a miss, and a file that does not parse leads
\* to a live fetch.
C14_NeverFatal ==
  [][ResolvesMalformed =>
       /\ op'.raised = NoneV
       /\ op'.result # NoneV
       /\ (~Parses(cache[op'.slug]) =>
             AllReadsMiss(cache, now, op'.slug) /\ op'.requests > 0)]_vars

(***************************************************************************)
(* Claims about concurrent cache writes (checked under SpecWriters).       *)
(***************************************************************************)
\* The file holds what the job stored.
Holds(file, job) ==
  /\ Parses(file)
  /\ IF job.kind = "cache_all_data"
     THEN file.all # NoneV /\ file.all[1].data = job.data
     ELSE /\ Key(job.version, job.loader) \in DOMAIN file.q
          /\ file.q[Key(job.version, job.loader)].data = job.data

\* C25: when two writers have interleaved their read-merge-write updates of
\* one package's file for two different keys, the file holds both entries
\* and is well formed.
C25_BothEntriesKept ==
  (/\ \A w \in WriterIds : writers[w].pc = "done"
   /\ writers[1].job # writers[2].job)
  => /\ ~Malformed(cache[WriterSlug])
     /\ \A w \in WriterIds : Holds(cache[WriterSlug], writers[w].job)

(***************************************************************************)
(* Claims about the rate limiter (checked under SpecRequests).              *)
(***************************************************************************)
\* C15: make_request delays the caller according to the limiter state it
\* finds.  With remaining < 10 the request is issued no earlier than the
\* reset deadline; otherwise the wait is the least one that puts the request
\* at least 100 ms after the previous request.  The request is issued only
\* after the wait.
C15_WaitsBeforeRequest ==
  op.name = "make_request" =>
    /\ op.wait_time >= 0
    /\ op.issued_at >= op.called_at + op.wait_time
    /\ (op.before.rate_remaining < 10 =>
          op.issued_at >= op.before.last_request_time + 1000 * op.before.rate_reset)
    /\ (op.before.rate_remaining >= 10 =>
          /\ op.issued_at - op.before.last_request_time >= MIN_REQUEST_INTERVAL
          /\ (op.wait_time > 0 =>
                op.called_at + op.wait_time - op.before.last_request_time
                  = MIN_REQUEST_INTERVAL))

C15_Witness ==
  /\ op.name = "make_request"
  /\ op.before.rate_remaining >= 10
  /\ op.wait_time = 60
  /\ op.issued_at - op.before.last_request_time = MIN_REQUEST_INTERVAL

\* C16: every outbound request of a run is gated with the limiter state the
\* preceding request of the run left; the state is never reset in between.
C16_LimiterStateKept ==
  (op.name = "make_request" /\ op.prev # NoneV) => op.before = op.prev[1]

(***************************************************************************)
(* Claims about the searches (checked under SpecSearch).                   *)
(***************************************************************************)
\* The non-snapshot versions every mod of the list lists.
CommonNonSnapshot(mods) ==
  {v \in VersionStrings :
     NotSnapshot(v) /\ \A i \in 1..Len(mods) : v \in Range(mods[i].versions)}

\* v is a minimum of S under the version comparator.
IsOldestOf(v, S) == v \in S /\ \A w \in S : ~VerLess(w, v)

\* C2: for a non-empty list of mods whose version lists share a non-snapshot
\* version, find_common_version returns the oldest shared non-snapshot
\* version, in modchecker/compatibility.py and in mod_checker.py alike.
C2_BothReturnOldest ==
  (/\ op.name \in {"find_common_version", "find_common_version_main"}
   /\ CommonNonSnapshot(op.mods) # {})
  => /\ op.result # NoneV
     /\ IsOldestOf(op.result[1], CommonNonSnapshot(op.mods))

\* C21: find_common_version returns none or a version without snapshot marker
\* that is in the versions list of every mod of its input, a mod with an empty
\* list included; it returns none exactly when there is no such version.
C21_CommonToEveryMod ==
  op.name = "find_common_version" =>
    IF CommonNonSnapshot(op.mods) = {}
    THEN op.result = NoneV
    ELSE op.result # NoneV /\ op.result[1] \in CommonNonSnapshot(op.mods)

\* C3: with allow_downgrade = false, find_next_compatible_version returns
\* none or a version that is not older than current_version under the version
\* comparator and is not current_version itself.
C3_NoDowngrade ==
  (/\ op.name = "find_next_compatible_version"
   /\ ~op.allow_downgrade
   /\ op.version # NoneV)
  => /\ VerGeq(op.version[1], op.current_version)
     /\ op.version[1] # op.current_version

\* A version is returned although the mods also list an older one and the
\* current one.
C3_Witness ==
  /\ op.name = "find_next_compatible_version"
  /\ ~op.allow_downgrade
  /\ op.version # NoneV
  /\ op.current_version \in AllVersions(op.mods)
  /\ \E w \in AllVersions(op.mods) : VerLess(w, op.current_version)

\* The candidates of a probe: every listed version but the current one, and
\* without downgrade only those not older than it.
Candidates ==
  {v \in AllVersions(op.mods) :
     /\ v # op.current_version
     /\ (op.allow_downgrade \/ VerGeq(v, op.current_version))}

\* Every package of the call resolves available at version v.
AllResolveAvailable(v) ==
  \A i \in 1..Len(op.mods) :
    /\ op.net[op.mods[i].slug].versions = "ok"
    /\ op.net[op.mods[i].slug].project = "ok"
    /\ MatchingReleases(op.mods[i].slug, v, op.loader) # {}

Probed == {op.version_checks[i].version : i \in 1..Len(op.version_checks)}

\* C17: find_next_compatible_version probes the candidates in descending
\* comparator order and records one VersionCheck per probed candidate, in
\* probe order; a record is compatible exactly when every package resolves
\* available at its version.  When version v is returned the last record is
\* for v and is the only compatible one, and no candidate before v was left
\* out; when none is returned every candidate was probed and no record is
\* compatible.
C17_ProbeTrail ==
  op.name = "find_next_compatible_version" =>
    LET trail == op.version_checks
        n == Len(op.version_checks)
    IN /\ Probed \subseteq Candidates
       /\ \A i, j \in 1..n :
            i < j => /\ trail[i].version # trail[j].version
                     /\ VerGeq(trail[i].version, trail[j].version)
       /\ \A i \in 1..n : trail[i].compatible <=> AllResolveAvailable(trail[i].version)
       /\ \A i \in 1..n : trail[i].compatible => i = n
       /\ IF op.version # NoneV
          THEN /\ n > 0
               /\ trail[n].version = op.version[1]
               /\ trail[n].compatible
               /\ \A u \in Candidates \ Probed : VerGeq(op.version[1], u)
          ELSE /\ Probed = Candidates
               /\ \A i \in 1..n : ~trail[i].compatible

\* Three candidates are probed and the third one is returned.
C17_Witness ==
  /\ op.name = "find_next_compatible_version"
  /\ op.version # NoneV
  /\ Len(op.version_checks) = 3
  /\ ~op.version_checks[1].compatible
  /\ VerLess(op.version_checks[3].version, op.version_checks[1].version)

\* C26: without downgrade, find_next_compatible_version probes the candidates
\* above current_version nearest to it first: the version it returns is the
\* closest to current_version among the candidates at which every package
\* resolves available.
C26_NearestFirst ==
  (/\ op.name = "find_next_compatible_version"
   /\ ~op.allow_downgrade
   /\ op.version # NoneV)
  => \A u \in Candidates :
       AllResolveAvailable(u) => VerGeq(u, op.version[1])

\* C4: whenever current_loader's compatible count equals the maximum over the
\* four loaders, find_best_loader returns current_loader, for every
\* preferred_loader and every iteration order of the loader set.
C4_CurrentWinsTies ==
  (/\ op.name = "find_best_loader"
   /\ \A l \in Loaders : op.loader_stats[l] <= op.loader_stats[op.current_loader])
  => op.best_loader = op.current_loader

\* The number of mods with a release for (version, loader) at the provider.
CompatibleCount(mods, version, loader) ==
  Cardinality({i \in 1..Len(mods) :
    \E k \in 1..Len(catalog[mods[i].slug].versions) :
      /\ loader \in catalog[mods[i].slug].versions[k].loaders
      /\ version \in catalog[mods[i].slug].versions[k].game_versions})

\* C10: find_best_loader returns a loader whose compatible count is the
\* maximum over the four loaders, and a stats map with exactly one entry per
\* loader holding the number of mods that resolve available under it.
C10_BestLoaderStats ==
  op.name = "find_best_loader"
  => /\ DOMAIN op.loader_stats = Loaders
     /\ \A l \in Loaders :
          op.loader_stats[l] = CompatibleCount(op.mods, op.version, l)
     /\ \A l \in Loaders : op.loader_stats[l] <= op.loader_stats[op.best_loader]

\* Mod "a" has one release, for fabric at 1.20; current_loader is forge.
C10_Witness ==
  /\ op.name = "find_best_loader"
  /\ catalog["a"].versions = <<Shape("a", 1, <<>>)>>
  /\ op.mods = <<ModRef("a")>>
  /\ op.version = V120
  /\ op.current_loader = "forge"
  /\ op.best_loader = "fabric"
  /\ op.loader_stats =
       [l \in Loaders |-> IF l = "fabric" THEN 1 ELSE 0]

\* The loader find_best_loader returns for the arguments of the last call
\* when the loader set is iterated in the given order.
BestLoaderUnder(order) ==
  find_best_loader(EmptyCache, SearchEnv(AllOk, SeedVersionOrder(order), order),
                   op.mods, op.version, op.current_loader, op.preferred_loader,
                   order).best_loader

\* C18: for fixed packages, version, current_loader, preferred_loader and
\* resolver answers, find_best_loader returns the same loader for every order
\* in which the four loaders are visited.
C18_OrderIndependent ==
  op.name = "find_best_loader" =>
    \A order \in Perms(Loaders) : BestLoaderUnder(order) = op.best_loader

\* The provider answers for slug and lists a release for version and loader.
ResolvesAvailable(slug, version, loader, net) ==
  /\ net[slug].versions = "ok"
  /\ net[slug].project = "ok"
  /\ MatchingReleases(slug, version, loader) # {}

\* The first release of slug listing version and loader.
FirstMatch(slug, version, loader) ==
  catalog[slug].versions[
    CHOOSE i \in MatchingReleases(slug, version, loader) :
      \A j \in MatchingReleases(slug, version, loader) : i <= j]

\* The loaders other than the current one under which every mod of the last
\* call resolves available.
SatisfyingLoaders ==
  {l \in Loaders \ {op.current_loader} :
     \A i \in 1..Len(op.mods) :
       ResolvesAvailable(op.mods[i].slug, op.version, l, op.net)}

\* C19: check_alternative_loaders returns a mapping whose keys are exactly the
\* loaders other than current_loader under which every package resolves
\* available at the version, each mapped to the Availability of every package,
\* in package order; current_loader is never a key.
C19_AlternativeLoaders ==
  op.name = "check_alternative_loaders" =>
    /\ DOMAIN op.loader_results = SatisfyingLoaders
    /\ op.current_loader \notin DOMAIN op.loader_results
    /\ \A l \in DOMAIN op.loader_results :
         /\ Len(op.loader_results[l]) = Len(op.mods)
         /\ \A i \in 1..Len(op.mods) :
              /\ op.loader_results[l][i].slug = op.mods[i].slug
              /\ op.loader_results[l][i].available
              /\ op.loader_results[l][i].version_id
                   = Some(FirstMatch(op.mods[i].slug, op.version, l).id)

\* Two mods, a loader that satisfies both, and another loader, not the
\* current one, that satisfies only one of them and is left out.
C19_Witness ==
  /\ op.name = "check_alternative_loaders"
  /\ Len(op.mods) = 2
  /\ DOMAIN op.loader_results # {}
  /\ \E l \in Loaders \ ({op.current_loader} \cup DOMAIN op.loader_results) :
       \E i \in 1..Len(op.mods) :
         ResolvesAvailable(op.mods[i].slug, op.version, l, op.net)

(***************************************************************************)
(* Claims about the dependency walk (checked under SpecDeps).              *)
(***************************************************************************)
NoDuplicates(s) == \A i, j \in 1..Len(s) : i # j => s[i] # s[j]

\* The project ids a project's release requires.
RequiredOf(slug) ==
  {d.project_id[1] : d \in {x \in Range(catalog[slug].versions[1].dependencies) :
                              x.project_id # NoneV /\ x.dependency_type = "required"}}

\* C5: over the calls of process_dependencies that share processed_mods, no
\* dependency id is resolved twice and none enters the results twice; the
\* ids resolved are exactly the visited ones.
C5_VisitedOnce ==
  op.name = "process_dependencies"
  => /\ NoDuplicates(op.resolved)
     /\ NoDuplicates(op.dependencies)
     /\ Range(op.resolved) = processed_mods

\* Two roots that require the same project have been walked, their
\* dependency requests answered, and the shared project is on a cycle.
C5_Witness ==
  /\ op.name = "process_dependencies"
  /\ Cardinality(op.walked) = 2
  /\ \E d \in Slugs :
       /\ \A r \in op.walked : d \in RequiredOf(r)
       /\ \E r \in op.walked : r \in RequiredOf(d)
       /\ d \in Range(op.dependencies)

\* C6: on the graph a -> b, b -> a with both available, the first walk of the
\* run, on root a, returns b exactly once and no entry for a.
C6_RootNotReturned ==
  (/\ op.name = "process_dependencies"
   /\ op.first
   /\ op.root = "a"
   /\ op.deps_request = "ok"
   /\ catalog["a"].versions = <<Shape("a", 1, <<Required("b")>>)>>
   /\ catalog["b"].versions = <<Shape("b", 1, <<Required("a")>>)>>)
  => /\ Cardinality({i \in 1..Len(op.deps) : op.deps[i] = "b"}) = 1
     /\ "a" \notin Range(op.deps)
\* The walk resolved dependency d and the provider lists no release of it for
\* the run's version and loader.
ResolvedUnavailable(d) ==
  /\ d \in Range(op.resolved)
  /\ MatchingReleases(d, WalkVersion, WalkLoader) = {}

\* C20: a required dependency that resolves unavailable does not abort the
\* walk: it has an entry in the returned list, and its siblings, the other
\* required dependencies of the same release, are still processed.
C20_UnavailableRecorded ==
  op.name = "process_dependencies" =>
    \A d \in Slugs :
      ResolvedUnavailable(d) =>
        /\ d \in Range(op.dependencies)
        /\ (d \in RequiredOf(op.root) /\ op.deps_request = "ok" /\ op.first)
             => \A sib \in RequiredOf(op.root) : sib \in processed_mods

\* What the code does keep: after an unavailable dependency the siblings
\* are still visited.
C20_SiblingsProcessed ==
  op.name = "process_dependencies" =>
    \A d \in Slugs :
      (ResolvedUnavailable(d) /\ d \in RequiredOf(op.root)
       /\ op.deps_request = "ok" /\ op.first)
      => \A sib \in RequiredOf(op.root) : sib \in processed_mods
(***************************************************************************)
(* Claims about the order and the end of one walk (checked under           *)
(* SpecGraph).                                                             *)
(***************************************************************************)
\* The ids a project's release requires, in the order the release lists them.
RequiredSeq(slug) ==
  LET ds == catalog[slug].versions[1].dependencies
      Wanted(d) == d.project_id # NoneV /\ d.dependency_type = "required"
      Id(d) == d.project_id[1]
  IN [i \in 1..Len(SelectSeq(ds, Wanted)) |-> Id(SelectSeq(ds, Wanted)[i])]

AvailableInWalk(slug) == MatchingReleases(slug, WalkVersion, WalkLoader) # {}

\* Depth-first pre-order over the ids `ids` and what they require, given the
\* set of ids visited so far: an available id is followed at once by the
\* pre-order of its own requirements, then come the later ids of the list.
RECURSIVE PreOrder(_, _)
PreOrder(ids, visited) ==
  IF Len(ids) = 0 THEN [visited |-> visited, list |-> <<>>]
  ELSE IF Head(ids) \in visited THEN PreOrder(Tail(ids), visited)
  ELSE IF ~AvailableInWalk(Head(ids))
  THEN PreOrder(Tail(ids), visited \cup {Head(ids)})
  ELSE LET After(rest, below) ==
             [visited |-> rest.visited,
              list |-> (<<Head(ids)>> \o below) \o rest.list]
           Below(sub) == After(PreOrder(Tail(ids), sub.visited), sub.list)
       IN Below(PreOrder(RequiredSeq(Head(ids)), visited \cup {Head(ids)}))

\* C23: the list process_dependencies returns is in depth-first pre-order:
\* every available dependency is followed at once by what the walk finds
\* below it, and all of that comes before its next sibling.
C23_PreOrder ==
  (op.name = "process_dependencies" /\ op.deps_request = "ok")
  => op.deps = PreOrder(RequiredSeq(op.root), {}).list

\* a requires b and c, b requires d: d is listed between b and c.
C23_Witness ==
  /\ op.name = "process_dependencies"
  /\ op.deps_request = "ok"
  /\ RequiredSeq("a") = <<"b", "c">>
  /\ op.deps = <<"b", "d", "c">>
\* The ids reachable from slug along required dependencies; four steps
\* cover every path without repetition among the four projects.
Below(S) == S \cup UNION {RequiredOf(x) : x \in S}

ReachableFrom(slug) == Below(Below(Below(Below(RequiredOf(slug)))))

\* C24: process_dependencies ends on every dependency graph, with cycles and
\* self-dependencies too, and resolves each dependency id reachable from the
\* root at most once and no other id.  In every state where the walk can be
\* called it has a result, and the result it left lists no id twice.
C24_EndsOncePerId ==
  /\ calls = 0 =>
       \A deps \in {"ok", "HTTPError"}, dl \in {"ok", "HTTPError"} :
         /\ NoDuplicates(GraphWalk(deps, dl).st.resolved)
         /\ Len(GraphWalk(deps, dl).dependency_results)
              <= Len(GraphWalk(deps, dl).st.resolved)
  /\ op.name = "process_dependencies" =>
       /\ NoDuplicates(op.resolved)
       /\ Range(op.resolved) \subseteq ReachableFrom(op.root)

\* The walk has ended on a graph where a requires itself and b and d require
\* each other, and it resolved d.
C24_Witness ==
  /\ op.name = "process_dependencies"
  /\ op.deps_request = "ok"
  /\ "a" \in RequiredOf("a")
  /\ "d" \in RequiredOf("b")
  /\ "b" \in RequiredOf("d")
  /\ "d" \in Range(op.resolved)

\* C29: a call of get_mod_dependencies for a release id whose fetched
\* dependency list is stored and younger than the TTL issues no request.
C29_OneRequestPerRelease ==
  (op.name = "get_mod_dependencies" /\ op.stored) => op.requests = 0

\* The same for the releases that have a required dependency: the stored
\* list is not empty and the call is answered from it.
C29_StoredListServed ==
  (op.name = "get_mod_dependencies" /\ op.stored
     /\ cache["deps"].q[Key(op.version_id, "all")].data # <<>>)
  => op.requests = 0 /\ op.dependencies = cache["deps"].q[Key(op.version_id, "all")].data

====
